---- MODULE Spec2Model ----
(***************************************************************************)
(* Model of src/utils/error_handler.py: the ErrorRecoveryManager          *)
(* (handle_error / attempt_recovery over the stock registry of recovery   *)
(* actions), the CircuitBreaker and the error_handler decorator; and of   *)
(* src/utils/logger.py: the performance windows and the log retention.    *)
(*                                                                         *)
(* Recovery actions are swappable callables: the model lets each          *)
(* execution of an action end in "success" (returns True), "failure"      *)
(* (returns False) or "raise" (raises an Exception).                      *)
(***************************************************************************)
EXTENDS Integers, Sequences, FiniteSets, TLC

VARIABLES
    error_history,   \* ErrorRecoveryManager.error_history: sequence of ErrorInfo
    recovery_stats,  \* ErrorRecoveryManager.recovery_stats
    pc,              \* position of the single caller inside handle_error
    idx,             \* position of attempt_recovery's for loop (1-based)
    recovered,       \* value returned by attempt_recovery (FALSE while it runs)
    result,          \* value returned by the last completed handle_error (FALSE before)
    executed,        \* actions executed in the current / last call, with outcome
    sleeps,          \* time.sleep calls made by attempt_recovery in that call
    callables,       \* what RecoveryAction.action holds: the placeholder methods
                     \* ("stock") or callables put in their place ("any")
    cb_state,        \* CircuitBreaker.state
    failure_count,   \* CircuitBreaker.failure_count
    last_failure_time, \* CircuitBreaker.last_failure_time (NoTime = None)
    failure_threshold, \* CircuitBreaker.failure_threshold
    recovery_timeout,  \* CircuitBreaker.recovery_timeout (seconds)
    now,             \* datetime.now(), in clock units
    cb_pc,           \* position of each caller inside CircuitBreaker.call
    ncalls,          \* number of completed CircuitBreaker.call calls
    nfailed,         \* number of calls whose wrapped operation raised
    invocations,     \* number of times the wrapped operation was invoked
    last_outcome,    \* how the last completed call ended: ok, fail or rejected
    last_trial_failure, \* when the last HALF_OPEN trial failed since the breaker tripped
    window_invocations, \* invocations of the operation made while the breaker was not
                     \* CLOSED, since the last change from OPEN to HALF_OPEN
    w_pc,            \* position of the caller inside error_handler's wrapper
    w_call,          \* the wrapped call: decorator arguments, whether func raised,
                     \* whether a recovery manager was found in args
    w_outcome,       \* how the last wrapped call ended: returned, None or raised
    w_bare_logged,   \* whether that call took the logging.error fallback
    w_count,         \* number of wrapped calls made
    performance_data, \* SWGOHLogger.performance_data: key -> list of samples
    recorded,        \* number of record_performance calls made per key
    ended,           \* number of durations logged per operation (action) name
    window_of,       \* the key under which an operation's last duration was stored
    last_log,        \* the last duration-carrying call: its entry point, the
                     \* operation and which of duration / start_time it was given
    log_files,       \* the entries of SWGOHLogger.log_dir: name -> kind and mtime
    cl_done,         \* whether cleanup_old_logs has been called
    cl_before,       \* log_files as the last cleanup_old_logs call found it
    cl_cutoff,       \* cutoff_date of that call
    cl_raised        \* whether that call raised to its caller

mvars == <<error_history, recovery_stats, pc, idx, recovered, result, executed, sleeps>>
cvars == <<cb_state, failure_count, last_failure_time, failure_threshold,
           recovery_timeout, now, cb_pc, ncalls, nfailed, invocations, last_outcome,
           last_trial_failure, window_invocations>>
wvars == <<w_pc, w_call, w_outcome, w_bare_logged, w_count>>
lvars == <<performance_data, recorded, ended, window_of, last_log, log_files, cl_done, cl_before, cl_cutoff, cl_raised>>
rvars == <<callables>>
vars == <<mvars, rvars, cvars, wvars, lvars>>

----------------------------------------------------------------------------
(* Bounds of the model *)

\* number of handle_error calls explored
MaxErrors == 2

\* number of calls of a function wrapped by error_handler explored
MaxWrapped == 1

\* number of durations logged per operation name explored
MaxActionEnds == 3

\* number of record_performance calls per key explored
MaxSamples == 150

\* largest days_to_keep cleanup_old_logs is called with
MaxKeepDays == 2

\* number of CircuitBreaker.call calls explored
MaxCalls == 4

\* largest failure_threshold and recovery_timeout (seconds) a breaker is built with
MaxThreshold == 3
MaxTimeout == 2

\* resolution of the model clock, and how many whole days it can run
TicksPerSecond == 2
MaxDays == 1

\* seconds in a day: timedelta.seconds wraps at this value
SecondsPerDay == 86400

----------------------------------------------------------------------------
(* Enumerations *)

ErrorSeverity == {"low", "medium", "high", "critical"}

ErrorCategory == {"screen_recognition", "network", "game_state", "resource",
                  "configuration", "ai_decision", "user_input", "system"}

\* what one execution of a recovery action callable can do
Outcomes == {"success", "failure", "raise"}

----------------------------------------------------------------------------
(* RecoveryAction and the registry built by setup_recovery_actions *)

\* RecoveryAction's default delay_between_attempts (seconds)
DefaultDelay == 1

RecoveryAction(n, m, d) == [name |-> n, max_attempts |-> m, delay_between_attempts |-> d]

setup_recovery_actions ==
    [c \in {"screen_recognition", "game_state", "network", "resource", "ai_decision"} |->
        CASE c = "screen_recognition" ->
                <<RecoveryAction("wait_and_retry", 3, 2),
                  RecoveryAction("adjust_confidence_threshold", 2, DefaultDelay),
                  RecoveryAction("refresh_screen", 2, DefaultDelay)>>
          [] c = "game_state" ->
                <<RecoveryAction("navigate_to_main_menu", 3, DefaultDelay),
                  RecoveryAction("restart_game", 1, DefaultDelay)>>
          [] c = "network" ->
                <<RecoveryAction("wait_for_network", 5, 5),
                  RecoveryAction("check_connection", 2, DefaultDelay)>>
          [] c = "resource" ->
                <<RecoveryAction("clear_cache", 1, DefaultDelay),
                  RecoveryAction("restart_automation", 1, DefaultDelay)>>
          [] c = "ai_decision" ->
                <<RecoveryAction("fallback_to_default_action", 2, DefaultDelay),
                  RecoveryAction("skip_current_action", 1, DefaultDelay)>>]

\* a registry that also gives the categories left out a last-resort action
recovery_actions_with_default ==
    [c \in ErrorCategory |->
        IF c \in DOMAIN setup_recovery_actions THEN setup_recovery_actions[c]
        ELSE <<RecoveryAction("restart_automation", 1, DefaultDelay)>>]

\* self.recovery_actions, set once in __init__
recovery_actions == setup_recovery_actions

\* `category not in self.recovery_actions` is false
HasActions(category) == category \in DOMAIN recovery_actions

\* the list the for loop walks (empty when attempt_recovery returns before the loop)
ActionsFor(category) ==
    IF HasActions(category) THEN recovery_actions[category] ELSE <<>>

----------------------------------------------------------------------------
(* ErrorInfo *)

\* ErrorInfo as handle_error constructs it; `exception` identifies the
\* exception object by the order in which it was handled
ErrorInfo(exc, sev, cat) ==
    [exception |-> exc, severity |-> sev, category |-> cat,
     recovery_attempts |-> 0, resolved |-> FALSE]

\* the record the running call works on (error_info in handle_error)
CurFirstOfCategory ==
    IF error_history = <<>> THEN 0
    ELSE CHOOSE i \in 1..Len(error_history) :
            /\ error_history[i].category = error_history[Len(error_history)].category
            /\ \A j \in 1..(i - 1) :
                  error_history[j].category # error_history[Len(error_history)].category

Cur == Len(error_history)

----------------------------------------------------------------------------
(* attempt_recovery: the pieces of one loop iteration *)

\* the budget check: `error_info.recovery_attempts >= recovery_action.max_attempts`
BudgetExhaustedStrict(attempts, max_attempts) == attempts > max_attempts

BudgetExhausted(attempts, max_attempts) == attempts >= max_attempts

\* `if recovery_action.delay_between_attempts > 0: time.sleep(...)`
SleepsBefore(delay) == IF delay > 0 THEN 1 ELSE 0

\* recovery_attempts after one execution: `+= 1` runs only when the action returned
AttemptsAfterRaiseReset(outcome, attempts) ==
    IF outcome = "raise" THEN 0 ELSE attempts + 1

AttemptsAfterAlways(outcome, attempts) == attempts + 1

AttemptsAfter(outcome, attempts) ==
    IF outcome = "raise" THEN attempts ELSE attempts + 1

\* what a placeholder method returns: each of them ends in `return True`
PlaceholderFirstFails(name) ==
    IF name \in {"wait_and_retry", "navigate_to_main_menu", "wait_for_network",
                 "clear_cache", "fallback_to_default_action"}
    THEN "failure" ELSE "success"

Placeholder(name) == "success"

\* how an execution of the action called name can end
ActionOutcomes(name) == IF callables = "stock" THEN {Placeholder(name)} ELSE Outcomes

\* `if success: return True`
ReturnsTrueNever(outcome) == FALSE

ReturnsTrue(outcome) == outcome = "success"

\* what follows an execution that did not return True: the except clause logs
\* and the for loop goes on with the next action
AfterNoSuccessAbort(outcome, i) ==
    IF outcome = "raise" THEN [pc |-> "finish", idx |-> i, recovered |-> FALSE]
    ELSE [pc |-> "recover", idx |-> i + 1, recovered |-> FALSE]

AfterNoSuccessStop(outcome, i) == [pc |-> "finish", idx |-> i, recovered |-> FALSE]

AfterNoSuccessRetry(outcome, i) == [pc |-> "recover", idx |-> i, recovered |-> FALSE]

AfterNoSuccess(outcome, i) == [pc |-> "recover", idx |-> i + 1, recovered |-> FALSE]

\* the counters after attempt_recovery returned: `if recovered: ... else: ...`
StatsAfterCountsBoth(stats, was_recovered) ==
    IF was_recovered
    THEN [stats EXCEPT !.resolved_errors = @ + 1, !.failed_recoveries = @ + 1]
    ELSE [stats EXCEPT !.failed_recoveries = @ + 1]

StatsAfter(stats, was_recovered) ==
    IF was_recovered
    THEN [stats EXCEPT !.resolved_errors = @ + 1]
    ELSE [stats EXCEPT !.failed_recoveries = @ + 1]

\* `self.error_history.append(error_info)`
AppendRecordFront(history, rec) == <<rec>> \o history

AppendRecord(history, rec) == Append(history, rec)

----------------------------------------------------------------------------
(* ErrorRecoveryManager *)

InitManager ==
    /\ error_history = <<>>
    /\ recovery_stats = [total_errors |-> 0, resolved_errors |-> 0, failed_recoveries |-> 0]
    /\ pc = "idle"
    /\ idx = 0
    /\ recovered = FALSE
    /\ result = FALSE
    /\ executed = <<>>
    /\ sleeps = 0

\* handle_error up to the call of attempt_recovery
HandleError(category, severity) ==
    /\ pc = "idle"
    /\ recovery_stats.total_errors < MaxErrors
    /\ error_history' = AppendRecord(error_history,
                            ErrorInfo(Len(error_history) + 1, severity, category))
    /\ recovery_stats' = [recovery_stats EXCEPT !.total_errors = @ + 1]
    /\ pc' = "recover"
    /\ idx' = 1
    /\ recovered' = FALSE
    /\ executed' = <<>>
    /\ sleeps' = 0
    /\ UNCHANGED result

\* attempt_recovery: `if category not in self.recovery_actions: return False`
NoActions ==
    /\ pc = "recover"
    /\ ~HasActions(error_history[Cur].category)
    /\ recovered' = FALSE
    /\ pc' = "finish"
    /\ UNCHANGED <<error_history, recovery_stats, idx, result, executed, sleeps>>

\* attempt_recovery: one iteration that hits `continue`
SkipAction ==
    /\ pc = "recover"
    /\ HasActions(error_history[Cur].category)
    /\ idx <= Len(ActionsFor(error_history[Cur].category))
    /\ BudgetExhausted(error_history[Cur].recovery_attempts,
                       ActionsFor(error_history[Cur].category)[idx].max_attempts)
    /\ idx' = idx + 1
    /\ UNCHANGED <<error_history, recovery_stats, pc, recovered, result, executed, sleeps>>

\* attempt_recovery: one iteration that sleeps and executes the action
ExecuteAction(outcome) ==
    /\ pc = "recover"
    /\ HasActions(error_history[Cur].category)
    /\ idx <= Len(ActionsFor(error_history[Cur].category))
    /\ LET action == ActionsFor(error_history[Cur].category)[idx]
           attempts == error_history[Cur].recovery_attempts
           after == AfterNoSuccess(outcome, idx)
       IN /\ ~BudgetExhausted(attempts, action.max_attempts)
          /\ outcome \in ActionOutcomes(action.name)
          /\ sleeps' = sleeps + SleepsBefore(action.delay_between_attempts)
          /\ executed' = Append(executed,
                            [index |-> idx, name |-> action.name, outcome |-> outcome])
          /\ error_history' = [error_history EXCEPT
                                  ![Cur].recovery_attempts = AttemptsAfter(outcome, attempts)]
          /\ IF ReturnsTrue(outcome)
             THEN /\ recovered' = TRUE
                  /\ pc' = "finish"
                  /\ idx' = idx
             ELSE /\ recovered' = after.recovered
                  /\ pc' = after.pc
                  /\ idx' = after.idx
    /\ UNCHANGED <<recovery_stats, result>>

\* attempt_recovery: the loop is over, `return False`
LoopEnd ==
    /\ pc = "recover"
    /\ HasActions(error_history[Cur].category)
    /\ idx > Len(ActionsFor(error_history[Cur].category))
    /\ recovered' = FALSE
    /\ pc' = "finish"
    /\ UNCHANGED <<error_history, recovery_stats, idx, result, executed, sleeps>>

\* handle_error after attempt_recovery returned
Finish ==
    /\ pc = "finish"
    /\ error_history' = IF recovered
                        THEN [error_history EXCEPT ![Cur].resolved = TRUE]
                        ELSE error_history
    /\ recovery_stats' = StatsAfter(recovery_stats, recovered)
    /\ result' = recovered
    /\ pc' = "idle"
    /\ UNCHANGED <<idx, recovered, executed, sleeps>>

----------------------------------------------------------------------------
(* CircuitBreaker *)

\* last_failure_time = None
NoTime == -1

\* the threads that may be inside CircuitBreaker.call
Callers == {1, 2}

\* the constructor's defaults
DefaultFailureThreshold == 5
DefaultRecoveryTimeout == 60

\* constructor arguments explored
Thresholds == 1..MaxThreshold
Timeouts == 1..MaxTimeout

\* the model clock counts units of 1/TicksPerSecond seconds; it is explored up to
\* MaxDays whole days plus a window that reaches past two recovery timeouts
DayTicks == SecondsPerDay * TicksPerSecond
Window == 2 * (MaxTimeout + 1) * TicksPerSecond
TickSteps == {1, TicksPerSecond, DayTicks}

\* timedelta.seconds: the whole seconds of the difference that do not make up
\* whole days (the days are kept in timedelta.days, which call does not read)
TimedeltaSeconds(delta) == (delta \div TicksPerSecond) % SecondsPerDay

\* `(datetime.now() - self.last_failure_time).seconds > self.recovery_timeout`
TimeoutElapsedAtEqual(t, last, timeout) == TimedeltaSeconds(t - last) >= timeout

TimeoutElapsedSwapped(t, last, timeout) == TimedeltaSeconds(last - t) > timeout

TimeoutElapsed(t, last, timeout) == TimedeltaSeconds(t - last) > timeout

\* `if self.failure_count >= self.failure_threshold: self.state = "OPEN"`
StateAfterFailureStrict(state, count, threshold) ==
    IF count > threshold THEN "OPEN" ELSE state

StateAfterFailureOnlyAt(state, count, threshold) ==
    IF count = threshold THEN "OPEN" ELSE state

StateAfterFailure(state, count, threshold) ==
    IF count >= threshold THEN "OPEN" ELSE state

\* a call whose operation returned: `if self.state == "HALF_OPEN": ...`
AfterSuccessKeepCount(state, count) ==
    IF state = "HALF_OPEN" THEN [state |-> "CLOSED", failure_count |-> count]
    ELSE [state |-> state, failure_count |-> count]

AfterSuccessResetsAlways(state, count) ==
    IF state = "HALF_OPEN" THEN [state |-> "CLOSED", failure_count |-> 0]
    ELSE [state |-> state, failure_count |-> 0]

AfterSuccessStaysHalfOpen(state, count) ==
    IF state = "HALF_OPEN" THEN [state |-> state, failure_count |-> 0]
    ELSE [state |-> state, failure_count |-> count]

AfterSuccess(state, count) ==
    IF state = "HALF_OPEN" THEN [state |-> "CLOSED", failure_count |-> 0]
    ELSE [state |-> state, failure_count |-> count]

\* CircuitBreaker.__init__
CircuitBreakerInit(threshold, timeout) ==
    /\ cb_state = "CLOSED"
    /\ failure_count = 0
    /\ last_failure_time = NoTime
    /\ failure_threshold = threshold
    /\ recovery_timeout = timeout
    /\ now = 0
    /\ cb_pc = [c \in Callers |-> "idle"]
    /\ ncalls = 0
    /\ nfailed = 0
    /\ invocations = 0
    /\ last_outcome = "none"
    /\ last_trial_failure = NoTime
    /\ window_invocations = 0

\* time passes
Tick(d) ==
    /\ (now + d) \div DayTicks <= MaxDays
    /\ (now + d) % DayTicks <= Window
    /\ now' = now + d
    /\ UNCHANGED <<cb_state, failure_count, last_failure_time, failure_threshold,
                   recovery_timeout, cb_pc, ncalls, nfailed, invocations, last_outcome,
                   last_trial_failure, window_invocations>>

\* the check before the try block: `if self.state == "OPEN":` with its timeout
\* test; any other state goes on to the try block
AdmissionClosedOnly(state, elapsed) ==
    IF state = "OPEN" THEN (IF elapsed THEN "trial" ELSE "reject")
    ELSE IF state = "HALF_OPEN" THEN "reject"
    ELSE "pass"

Admission(state, elapsed) ==
    IF state = "OPEN" THEN (IF elapsed THEN "trial" ELSE "reject")
    ELSE "pass"

\* call: the OPEN check before the try block
CallEnter(c) ==
    /\ cb_pc[c] = "idle"
    /\ ncalls + Cardinality({k \in Callers : cb_pc[k] # "idle"}) < MaxCalls
    /\ LET admission == Admission(cb_state, cb_state = "OPEN" /\
                             TimeoutElapsed(now, last_failure_time, recovery_timeout))
       IN CASE admission = "trial" ->
                 /\ cb_state' = "HALF_OPEN"
                 /\ cb_pc' = [cb_pc EXCEPT ![c] = "invoke"]
                 /\ window_invocations' = 0
                 /\ UNCHANGED <<ncalls, last_outcome>>
            [] admission = "reject" ->
                 \* raise Exception("Circuit breaker is OPEN")
                 /\ cb_state' = cb_state
                 /\ cb_pc' = cb_pc
                 /\ ncalls' = ncalls + 1
                 /\ last_outcome' = "rejected"
                 /\ UNCHANGED window_invocations
            [] admission = "pass" ->
                 /\ cb_state' = cb_state
                 /\ cb_pc' = [cb_pc EXCEPT ![c] = "invoke"]
                 /\ UNCHANGED <<ncalls, last_outcome, window_invocations>>
    /\ UNCHANGED <<failure_count, last_failure_time, failure_threshold,
                   recovery_timeout, now, nfailed, invocations, last_trial_failure>>

\* call: the try block, with the wrapped operation returning (ok) or raising
CallInvoke(c, ok) ==
    /\ cb_pc[c] = "invoke"
    /\ invocations' = invocations + 1
    /\ ncalls' = ncalls + 1
    /\ cb_pc' = [cb_pc EXCEPT ![c] = "idle"]
    /\ window_invocations' =
          IF cb_state # "CLOSED" THEN window_invocations + 1 ELSE window_invocations
    /\ IF ok
       THEN /\ cb_state' = AfterSuccess(cb_state, failure_count).state
            /\ failure_count' = AfterSuccess(cb_state, failure_count).failure_count
            /\ last_outcome' = "ok"
            /\ last_trial_failure' =
                  IF cb_state = "HALF_OPEN" THEN NoTime ELSE last_trial_failure
            /\ UNCHANGED <<last_failure_time, nfailed>>
       ELSE /\ failure_count' = failure_count + 1
            /\ last_failure_time' = now
            /\ cb_state' = StateAfterFailure(cb_state, failure_count + 1, failure_threshold)
            /\ last_outcome' = "fail"
            /\ last_trial_failure' =
                  IF cb_state = "HALF_OPEN" THEN now ELSE last_trial_failure
            /\ nfailed' = nfailed + 1
    /\ UNCHANGED <<failure_threshold, recovery_timeout, now>>

----------------------------------------------------------------------------
(* error_handler: the decorator's wrapper *)

\* what a positional argument of the wrapped call can be: an object without an
\* error_recovery attribute, one whose error_recovery is a manager, one whose
\* error_recovery is None
ArgKinds == {"plain", "manager", "none"}

\* the argument lists explored
ArgLists == {<<>>, <<"plain">>, <<"manager">>, <<"none">>,
             <<"plain", "manager">>, <<"none", "manager">>}

\* `for arg in args: if hasattr(arg, 'error_recovery'): ...; break`
RECURSIVE FirstWithAttribute(_, _)
FirstWithAttribute(args, i) ==
    IF i > Len(args) THEN 0
    ELSE IF args[i] # "plain" THEN i
    ELSE FirstWithAttribute(args, i + 1)

\* `if recovery_manager:` holds
ManagerFound(args) ==
    LET i == FirstWithAttribute(args, 1)
    IN i # 0 /\ args[i] = "manager"

\* `if severity == ErrorSeverity.CRITICAL: raise`; the outcome of the recovery
\* is not read
ReRaisesIfUnrecovered(severity, was_recovered) ==
    severity = "critical" \/ ~was_recovered

ReRaisesNever(severity, was_recovered) == FALSE

ReRaisesCriticalUnrecovered(severity, was_recovered) ==
    severity = "critical" /\ ~was_recovered

ReRaises(severity, was_recovered) == severity = "critical"

InitWrapper ==
    /\ w_pc = "idle"
    /\ w_call = [category |-> "system", severity |-> "medium",
                 raised |-> FALSE, managed |-> FALSE]
    /\ w_outcome = "none"
    /\ w_bare_logged = FALSE
    /\ w_count = 0

\* wrapper: func returns its value
WrapperReturns(category, severity, args) ==
    /\ w_pc = "idle"
    /\ w_count < MaxWrapped
    /\ w_call' = [category |-> category, severity |-> severity,
                  raised |-> FALSE, managed |-> ManagerFound(args)]
    /\ w_outcome' = "returned"
    /\ w_bare_logged' = FALSE
    /\ w_count' = w_count + 1
    /\ UNCHANGED <<w_pc, mvars>>

\* wrapper: func raises and a manager is found: handle_error is called
WrapperHandles(category, severity, args) ==
    /\ w_pc = "idle"
    /\ w_count < MaxWrapped
    /\ ManagerFound(args)
    /\ HandleError(category, severity)
    /\ w_call' = [category |-> category, severity |-> severity,
                  raised |-> TRUE, managed |-> TRUE]
    /\ w_pc' = "handling"
    /\ w_outcome' = "none"
    /\ w_bare_logged' = FALSE
    /\ w_count' = w_count + 1

\* wrapper: func raises and no manager is found: logging.error, then the
\* re-raise test
WrapperLogs(category, severity, args) ==
    /\ w_pc = "idle"
    /\ w_count < MaxWrapped
    /\ ~ManagerFound(args)
    /\ w_call' = [category |-> category, severity |-> severity,
                  raised |-> TRUE, managed |-> FALSE]
    /\ w_bare_logged' = TRUE
    /\ w_outcome' = IF ReRaises(severity, FALSE) THEN "raised" ELSE "None"
    /\ w_count' = w_count + 1
    /\ UNCHANGED <<w_pc, mvars>>

\* wrapper: handle_error has returned: the re-raise test
WrapperAfterHandle ==
    /\ w_pc = "handling"
    /\ pc = "idle"
    /\ w_outcome' = IF ReRaises(w_call.severity, result) THEN "raised" ELSE "None"
    /\ w_pc' = "idle"
    /\ UNCHANGED <<w_call, w_bare_logged, w_count, mvars>>

----------------------------------------------------------------------------
(* SWGOHLogger: performance windows and log retention (src/utils/logger.py) *)

\* `if len(self.performance_data[key]) > 100`
PerformanceCap == 100

\* the callers record_performance is given: module and function name
PerfModules == {"utils.logger"}
PerfFunctions == {"log_action_end", "__exit__"}

\* `key = f"{module}.{function}"`; a function name holds no dot, so the text
\* determines the pair
PerfKey(module, function) == <<module, function>>
PerfKeys == {PerfKey(m, f) : m \in PerfModules, f \in PerfFunctions}

\* `self.performance_data[key] = self.performance_data[key][-100:]`
TrimWindowHead(window) ==
    IF Len(window) > PerformanceCap
    THEN SubSeq(window, 1, PerformanceCap)
    ELSE window

TrimWindow(window) ==
    IF Len(window) > PerformanceCap
    THEN SubSeq(window, Len(window) - PerformanceCap + 1, Len(window))
    ELSE window

\* the list stored under a key ([] when the key is new)
WindowOf(data, key) == IF key \in DOMAIN data THEN data[key] ELSE <<>>

\* the operation (action) names given to log_action_end and PerformanceTimer
Operations == {"battle", "collect_energy"}

\* the functions that call log_action_end or leave a PerformanceTimer block
CallerFunctions == {"run_battle"}

\* what log_action_end is given: duration=..., start_time=... or neither
GivenKinds == {"duration", "start_time", "neither"}

\* the duration None
NoDuration == -1

\* the call stacks at the time _log runs, outermost frame first
ActionEndStack(caller) == <<caller, "log_action_end", "info", "_log">>
TimerOkStack(caller) == <<caller, "__exit__", "log_action_end", "info", "_log">>
TimerFailedStack(caller) == <<caller, "__exit__", "error", "_log">>

\* `frame = sys._getframe(2)`; `function = frame.f_code.co_name`
FrameDepth == 2
GetFrame(stack, depth) == stack[Len(stack) - depth]

\* the module of that frame: the three entry points are defined in logger.py
FrameModule(function) ==
    IF function \in {"log_action_end", "__exit__", "info", "error", "_log"}
    THEN "utils.logger" ELSE "modules.battle_automation"

\* log_action_end: `duration = kwargs.pop('duration', None)`, computed from
\* start_time when that is given; the n-th sample of a key carries n
ActionEndDuration(given, n) == IF given = "neither" THEN NoDuration ELSE n

\* _log: `if 'duration' in kwargs`; log_action_end always passes duration=duration
DurationInKwargsIfGiven(given) == given # "neither"

DurationInKwargs(given) == TRUE

\* the entries of the log directory explored: two files and a subdirectory, in
\* the order os.listdir returns them
ListOrder == <<"archive", "session_report.json", "swgoh_bot.log">>
FileNames == {"session_report.json", "swgoh_bot.log"}

\* the earliest datetime there is (datetime.min), the origin of the clock here
DatetimeMin == 0

\* datetime.now() at the time of the cleanup, and timedelta(days = n), in clock
\* units; now lies MaxKeepDays days and one tick after datetime.min
LogNow == DatetimeMin + MaxKeepDays * DayTicks + 1
Days(n) == n * DayTicks

\* `datetime.now() - timedelta(days=days_to_keep)` raises OverflowError when the
\* difference lies before datetime.min
CutoffRepresentable(days_to_keep) == LogNow - Days(days_to_keep) >= DatetimeMin

\* modification times explored: around every cutoff, never in the future
MtimeChoices ==
    {t \in {LogNow - Days(d) + e : d \in 0..MaxKeepDays, e \in {-1, 0, 1}} : t <= LogNow}

\* the directory contents explored
DirChoices ==
    UNION {[S -> [isfile : {TRUE}, mtime : MtimeChoices]] : S \in SUBSET FileNames}

WithArchive(dir) ==
    [n \in DOMAIN dir \cup {"archive"} |->
        IF n = "archive" THEN [isfile |-> FALSE, mtime |-> LogNow - Days(MaxKeepDays) - 1]
        ELSE dir[n]]

\* the directory right after setup_logger created the main log file
ConstructedDir == [n \in {"swgoh_bot.log"} |-> [isfile |-> TRUE, mtime |-> LogNow]]

\* `if file_time < cutoff_date`
IsOld(mtime, cutoff) == mtime < cutoff

\* os.remove(file_path)
RemoveEntry(dir, name) == [n \in DOMAIN dir \ {name} |-> dir[n]]

\* the for loop of cleanup_old_logs from entry i on; an OS call raising at entry
\* fail_at ends the loop in the except clause
RECURSIVE CleanupFrom(_, _, _, _)
CleanupFrom(dir, cutoff, i, fail_at) ==
    IF i > Len(ListOrder) \/ i = fail_at THEN dir
    ELSE LET name == ListOrder[i]
         IN IF /\ name \in DOMAIN dir
               /\ dir[name].isfile
               /\ IsOld(dir[name].mtime, cutoff)
            THEN CleanupFrom(RemoveEntry(dir, name), cutoff, i + 1, fail_at)
            ELSE CleanupFrom(dir, cutoff, i + 1, fail_at)

\* SWGOHLogger.__init__, with the log directory in a given state
LoggerInit(dir) ==
    /\ performance_data = <<>>
    /\ recorded = [k \in PerfKeys |-> 0]
    /\ ended = [o \in Operations |-> 0]
    /\ window_of = [o \in Operations |-> <<>>]
    /\ last_log = [entry |-> "none", operation |-> "none", given |-> "none"]
    /\ log_files = dir
    /\ cl_done = FALSE
    /\ cl_before = dir
    /\ cl_cutoff = 0
    /\ cl_raised = FALSE

\* record_performance; the n-th sample of a key carries n as its timestamp and
\* duration (the code stores the values without reading them)
RecordPerformance(module, function) ==
    LET key == PerfKey(module, function)
        n == recorded[key] + 1
        sample == [timestamp |-> n, duration |-> n]
    IN /\ recorded[key] < MaxSamples
       /\ recorded' = [recorded EXCEPT ![key] = n]
       /\ performance_data' =
             [k \in DOMAIN performance_data \cup {key} |->
                 IF k = key
                 THEN TrimWindow(Append(WindowOf(performance_data, key), sample))
                 ELSE performance_data[k]]
       /\ UNCHANGED <<ended, window_of, last_log>>
       /\ UNCHANGED <<log_files, cl_done, cl_before, cl_cutoff, cl_raised>>

\* _log with a duration among its keyword arguments, reached through stack
LogWithDuration(stack, operation, given, entry) ==
    LET function == GetFrame(stack, FrameDepth)
        key == PerfKey(FrameModule(function), function)
        n == recorded[key] + 1
        sample == [timestamp |-> n, duration |-> ActionEndDuration(given, n)]
    IN /\ ended[operation] < MaxActionEnds
       /\ ended' = [ended EXCEPT ![operation] = @ + 1]
       /\ last_log' = [entry |-> entry, operation |-> operation, given |-> given]
       /\ IF DurationInKwargs(given)
          THEN /\ recorded' = [recorded EXCEPT ![key] = n]
               /\ window_of' = [window_of EXCEPT ![operation] = key]
               /\ performance_data' =
                     [k \in DOMAIN performance_data \cup {key} |->
                         IF k = key
                         THEN TrimWindow(Append(WindowOf(performance_data, key), sample))
                         ELSE performance_data[k]]
          ELSE UNCHANGED <<recorded, window_of, performance_data>>
       /\ UNCHANGED <<log_files, cl_done, cl_before, cl_cutoff, cl_raised>>

\* log_action_end(action, success, ...) called from a function of the bot
LogActionEnd(caller, operation, given) ==
    LogWithDuration(ActionEndStack(caller), operation, given, "log_action_end")

\* PerformanceTimer.__exit__: logger.error(..., duration=duration) when the block
\* raised, log_action_end(operation, True, duration=duration) otherwise
PerformanceTimerExit(caller, operation, block_raised) ==
    IF block_raised
    THEN LogWithDuration(TimerFailedStack(caller), operation, "duration", "__exit__")
    ELSE LogWithDuration(TimerOkStack(caller), operation, "duration", "log_action_end")

\* cleanup_old_logs(days_to_keep): cutoff_date is computed before the try block,
\* so its OverflowError reaches the caller; the OS calls are made inside the try
\* block, whose except clause logs and returns
CleanupOldLogs(days_to_keep, fail_at) ==
    /\ cl_done' = TRUE
    /\ cl_before' = log_files
    /\ IF CutoffRepresentable(days_to_keep)
       THEN /\ cl_cutoff' = LogNow - Days(days_to_keep)
            /\ log_files' = CleanupFrom(log_files, cl_cutoff', 1, fail_at)
            /\ cl_raised' = FALSE
       ELSE /\ cl_cutoff' = DatetimeMin
            /\ log_files' = log_files
            /\ cl_raised' = TRUE
    /\ UNCHANGED <<performance_data, recorded, ended, window_of, last_log>>

----------------------------------------------------------------------------
(* Specifications *)

\* a manager, and a breaker built with the constructor's defaults
Init ==
    /\ InitManager
    /\ callables = "any"
    /\ CircuitBreakerInit(DefaultFailureThreshold, DefaultRecoveryTimeout)
    /\ InitWrapper
    /\ LoggerInit(ConstructedDir)

Next ==
    \/ \E category \in ErrorCategory, severity \in ErrorSeverity :
          HandleError(category, severity) /\ UNCHANGED <<rvars, cvars, wvars, lvars>>
    \/ NoActions /\ UNCHANGED <<rvars, cvars, wvars, lvars>>
    \/ SkipAction /\ UNCHANGED <<rvars, cvars, wvars, lvars>>
    \/ \E outcome \in Outcomes : ExecuteAction(outcome) /\ UNCHANGED <<rvars, cvars, wvars, lvars>>
    \/ LoopEnd /\ UNCHANGED <<rvars, cvars, wvars, lvars>>
    \/ Finish /\ UNCHANGED <<rvars, cvars, wvars, lvars>>

Spec == Init /\ [][Next]_vars

\* the circuit breaker used by one caller
NextBreaker ==
    \/ \E d \in TickSteps : Tick(d) /\ UNCHANGED <<mvars, rvars, wvars, lvars>>
    \/ CallEnter(1) /\ UNCHANGED <<mvars, rvars, wvars, lvars>>
    \/ \E ok \in BOOLEAN : CallInvoke(1, ok) /\ UNCHANGED <<mvars, rvars, wvars, lvars>>

\* the circuit breaker shared by two callers whose calls interleave
NextConcurrent ==
    \/ \E d \in TickSteps : Tick(d) /\ UNCHANGED <<mvars, rvars, wvars, lvars>>
    \/ \E c \in Callers : CallEnter(c) /\ UNCHANGED <<mvars, rvars, wvars, lvars>>
    \/ \E c \in Callers, ok \in BOOLEAN :
          CallInvoke(c, ok) /\ UNCHANGED <<mvars, rvars, wvars, lvars>>

InitBreaker ==
    /\ InitManager
    /\ callables = "any"
    /\ InitWrapper
    /\ LoggerInit(ConstructedDir)
    /\ \E threshold \in Thresholds, timeout \in Timeouts :
          CircuitBreakerInit(threshold, timeout)

SpecBreaker == InitBreaker /\ [][NextBreaker]_vars

\* two callers are explored with the shortest recovery timeout
InitConcurrent ==
    /\ InitManager
    /\ callables = "any"
    /\ InitWrapper
    /\ LoggerInit(ConstructedDir)
    /\ \E threshold \in Thresholds : CircuitBreakerInit(threshold, 1)

SpecConcurrent == InitConcurrent /\ [][NextConcurrent]_vars

\* calls of a function decorated with error_handler, with the manager they reach
NextWrapper ==
    \/ \E category \in ErrorCategory, severity \in ErrorSeverity, args \in ArgLists :
          WrapperReturns(category, severity, args) /\ UNCHANGED <<rvars, cvars, lvars>>
    \/ \E category \in ErrorCategory, severity \in ErrorSeverity, args \in ArgLists :
          WrapperHandles(category, severity, args) /\ UNCHANGED <<rvars, cvars, lvars>>
    \/ \E category \in ErrorCategory, severity \in ErrorSeverity, args \in ArgLists :
          WrapperLogs(category, severity, args) /\ UNCHANGED <<rvars, cvars, lvars>>
    \/ NoActions /\ UNCHANGED <<rvars, cvars, wvars, lvars>>
    \/ SkipAction /\ UNCHANGED <<rvars, cvars, wvars, lvars>>
    \/ \E outcome \in Outcomes : ExecuteAction(outcome) /\ UNCHANGED <<rvars, cvars, wvars, lvars>>
    \/ LoopEnd /\ UNCHANGED <<rvars, cvars, wvars, lvars>>
    \/ Finish /\ UNCHANGED <<rvars, cvars, wvars, lvars>>
    \/ WrapperAfterHandle /\ UNCHANGED <<rvars, cvars, lvars>>

SpecWrapper == Init /\ [][NextWrapper]_vars

\* the manager with the placeholder methods or with other callables registered
InitStock ==
    /\ InitManager
    /\ callables \in {"stock", "any"}
    /\ CircuitBreakerInit(DefaultFailureThreshold, DefaultRecoveryTimeout)
    /\ InitWrapper
    /\ LoggerInit(ConstructedDir)

SpecStock == InitStock /\ [][Next]_vars

\* the logger's performance windows
NextPerformance ==
    \E module \in PerfModules, function \in PerfFunctions :
       RecordPerformance(module, function) /\ UNCHANGED <<mvars, rvars, cvars, wvars>>

SpecPerformance == Init /\ [][NextPerformance]_vars

\* action-end records and PerformanceTimer blocks
NextActions ==
    \/ \E caller \in CallerFunctions, operation \in Operations, given \in GivenKinds :
          LogActionEnd(caller, operation, given) /\ UNCHANGED <<mvars, rvars, cvars, wvars>>
    \/ \E caller \in CallerFunctions, operation \in Operations, block_raised \in BOOLEAN :
          PerformanceTimerExit(caller, operation, block_raised)
             /\ UNCHANGED <<mvars, rvars, cvars, wvars>>

SpecActions == Init /\ [][NextActions]_vars

\* log retention over the directory contents explored
InitCleanup ==
    /\ InitManager
    /\ callables = "any"
    /\ CircuitBreakerInit(DefaultFailureThreshold, DefaultRecoveryTimeout)
    /\ InitWrapper
    /\ \E dir \in DirChoices, with_archive \in BOOLEAN :
          LoggerInit(IF with_archive THEN WithArchive(dir) ELSE dir)

NextCleanup ==
    \E days_to_keep \in 0..(MaxKeepDays + 1), fail_at \in 0..Len(ListOrder) :
       CleanupOldLogs(days_to_keep, fail_at) /\ UNCHANGED <<mvars, rvars, cvars, wvars>>

SpecCleanup == InitCleanup /\ [][NextCleanup]_vars

----------------------------------------------------------------------------
(* Properties of the ErrorRecoveryManager, checked under Spec *)

\* a handle_error call has returned and no other has started
Completed == pc = "idle" /\ Len(error_history) >= 1

\* the record of the current / last call
CurCategory == error_history[Cur].category
CurAttempts == error_history[Cur].recovery_attempts

RECURSIVE SumMaxFrom(_, _)
SumMaxFrom(actions, i) ==
    IF i > Len(actions) THEN 0
    ELSE actions[i].max_attempts + SumMaxFrom(actions, i + 1)

\* sum of max_attempts over the actions registered for a category
SumMaxAttempts(category) == SumMaxFrom(ActionsFor(category), 1)

SomeSuccess == \E p \in 1..Len(executed) : executed[p].outcome = "success"

\* C1: in one handle call the actions that are executed are executed in
\* registration order, the call returns True at the first action that reports
\* success, nothing is executed after that action, and the call returns False
\* when no executed action reported success.
C1_FirstSuccessWins ==
    /\ \A p, q \in 1..Len(executed) :
          p < q => executed[p].index < executed[q].index
    /\ \A p \in 1..Len(executed) :
          executed[p].outcome = "success" =>
             /\ p = Len(executed)
             /\ pc \in {"finish", "idle"}
             /\ recovered
    /\ pc = "finish" => (recovered <=> SomeSuccess)
    /\ Completed => (result = TRUE <=> SomeSuccess)

\* a call returned True at its second execution and left a registered action unexecuted
C1_Witness ==
    /\ Completed
    /\ result = TRUE
    /\ Len(executed) = 2
    /\ executed[1].outcome = "failure"
    /\ executed[2].index < Len(ActionsFor(CurCategory))

\* C2 (as claimed): when every recovery action of a category with registered
\* actions reports failure, the call returns False and leaves recovery_attempts
\* equal to the sum of max_attempts of the category's actions.
C2_AllFailExhaustsBudgets ==
    ( /\ Completed
      /\ Len(ActionsFor(CurCategory)) >= 1
      /\ \A p \in 1..Len(executed) : executed[p].outcome = "failure" )
    => /\ result = FALSE
       /\ CurAttempts = SumMaxAttempts(CurCategory)

\* C3: recovery_attempts of every record never exceeds the sum of max_attempts of
\* the actions registered for the record's category, and no step decreases it.
C3_AttemptsBoundedMonotone ==
    /\ [](\A i \in 1..Len(error_history) :
            /\ error_history[i].recovery_attempts >= 0
            /\ error_history[i].recovery_attempts
                  <= SumMaxAttempts(error_history[i].category))
    /\ [][\A i \in 1..Len(error_history) :
            /\ i <= Len(error_history')
            /\ error_history'[i].recovery_attempts >= error_history[i].recovery_attempts]_vars

\* a second record went through a raise after an attempt was counted, and ended
\* with two attempts
C3_Witness ==
    /\ Completed
    /\ Len(error_history) = 2
    /\ CurAttempts = 2
    /\ \E p \in 2..Len(executed) : executed[p].outcome = "raise"

\* the scenario of C4: a completed handle call for category NETWORK, severity
\* MEDIUM, in which every action failed on its first execution and succeeded on
\* its second
NetworkFailFirstScenario ==
    /\ Completed
    /\ CurCategory = "network"
    /\ error_history[Cur].severity = "medium"
    /\ \A p \in 1..Len(executed) :
          executed[p].outcome =
             IF \E q \in 1..(p - 1) : executed[q].name = executed[p].name
             THEN "success" ELSE "failure"

\* C4 (as claimed): the scenario ends with resolved = true and one attempt.
C4_ResolvedAfterOneAttempt ==
    NetworkFailFirstScenario =>
       /\ result = TRUE
       /\ error_history[Cur].resolved = TRUE
       /\ CurAttempts = 1

\* C4 (amended): each NETWORK action is executed exactly once, both fail, and
\* the call returns False with recovery_attempts = 2 and the record unresolved.
C4_UnresolvedAfterTwoAttempts ==
    NetworkFailFirstScenario =>
       /\ result = FALSE
       /\ error_history[Cur].resolved = FALSE
       /\ CurAttempts = 2
       /\ Len(executed) = 2
       /\ executed[1].name = "wait_for_network"
       /\ executed[2].name = "check_connection"

C4_Witness ==
    /\ NetworkFailFirstScenario
    /\ Len(executed) = 2

\* the categories the stock registry has no actions for
UnregisteredCategories == {"configuration", "user_input", "system"}

\* C5: a handle call for a category without registered actions executes no
\* action, sleeps zero times, leaves recovery_attempts at 0 and returns False.
C5_UnregisteredNotRecovered ==
    /\ (Cur >= 1 /\ pc # "idle" /\ CurCategory \in UnregisteredCategories) =>
          /\ executed = <<>>
          /\ sleeps = 0
          /\ CurAttempts = 0
          /\ recovered = FALSE
    /\ (Completed /\ CurCategory \in UnregisteredCategories) =>
          /\ executed = <<>>
          /\ sleeps = 0
          /\ CurAttempts = 0
          /\ result = FALSE
          /\ error_history[Cur].resolved = FALSE
    /\ \A i \in 1..Len(error_history) :
          error_history[i].category \in UnregisteredCategories =>
             error_history[i].recovery_attempts = 0

\* a handle call for SYSTEM returned, after an earlier call that did sleep
C5_Witness ==
    /\ Completed
    /\ Len(error_history) = 2
    /\ CurCategory = "system"
    /\ error_history[1].recovery_attempts > 0
    /\ result = FALSE

\* C6: an action that raises neither ends the loop nor the call: the loop goes on
\* with the next registered action, a call that returns False has walked the whole
\* list, and a call in which an action raised and a later one succeeded returns True.
C6_RaiseContinuesLoop ==
    /\ [][( /\ Len(executed') = Len(executed) + 1
            /\ executed'[Len(executed')].outcome = "raise" )
          => /\ pc' = "recover"
             /\ idx' = idx + 1
             /\ recovered' = FALSE]_vars
    /\ []((Completed /\ result = FALSE /\ CurCategory \notin UnregisteredCategories)
            => idx = Len(ActionsFor(CurCategory)) + 1)
    /\ []((Completed /\ \E p \in 1..Len(executed) : executed[p].outcome = "raise")
            => (result = TRUE <=> SomeSuccess))

\* the first action raised, the second succeeded, the call returned True
C6_Witness ==
    /\ Completed
    /\ Len(executed) = 2
    /\ executed[1].outcome = "raise"
    /\ executed[2].outcome = "success"
    /\ result = TRUE

\* C7: the history is append-only. Its length equals total_errors; a step either
\* leaves the earlier records where they are, or is the start of a handle call,
\* which appends one fresh record at the end (before any recovery action ran)
\* and adds one to total_errors.
C7_HistoryAppendOnly ==
    /\ [](Len(error_history) = recovery_stats.total_errors)
    /\ [][LET n == Len(error_history) IN
          /\ Len(error_history') \in {n, n + 1}
          /\ \A i \in 1..n :
                /\ error_history'[i].exception = error_history[i].exception
                /\ error_history'[i].category = error_history[i].category
                /\ error_history'[i].severity = error_history[i].severity
          /\ (pc = "idle" /\ pc' # "idle") <=> Len(error_history') = n + 1
          /\ Len(error_history') = n + 1 =>
                /\ recovery_stats'.total_errors = recovery_stats.total_errors + 1
                /\ error_history'[n + 1].exception = n + 1
                /\ error_history'[n + 1].recovery_attempts = 0
                /\ error_history'[n + 1].resolved = FALSE
                /\ executed' = <<>>
                /\ sleeps' = 0
          /\ Len(error_history') = n =>
                recovery_stats'.total_errors = recovery_stats.total_errors]_vars

\* two handle calls have completed, the first one resolved
C7_Witness ==
    /\ Completed
    /\ Len(error_history) = 2
    /\ recovery_stats.total_errors = 2
    /\ error_history[1].resolved = TRUE
    /\ error_history[2].recovery_attempts > 0

----------------------------------------------------------------------------
(* Properties of the CircuitBreaker with one caller, checked under SpecBreaker *)

\* no call is in progress
BetweenCalls == \A c \in Callers : cb_pc[c] = "idle"

\* the time since the last failure has not exceeded recovery_timeout
WithinCooldown == now - last_failure_time <= recovery_timeout * TicksPerSecond

\* C8: while every call made on a new breaker has had its operation fail, the
\* breaker is CLOSED after fewer than failure_threshold calls, each of which
\* invoked the operation, and OPEN after exactly failure_threshold calls.
C8_OpensAtThreshold ==
    (BetweenCalls /\ nfailed = ncalls) =>
       /\ ncalls < failure_threshold =>
             (cb_state = "CLOSED" /\ invocations = ncalls)
       /\ ncalls = failure_threshold =>
             (cb_state = "OPEN" /\ invocations = ncalls)

\* three failing calls in a row opened a breaker built with failure_threshold = 3
C8_Witness ==
    /\ BetweenCalls
    /\ failure_threshold = 3
    /\ ncalls = 3
    /\ nfailed = 3
    /\ cb_state = "OPEN"

\* C9: a call whose operation fails and leaves the failure count at or past
\* failure_threshold leaves the breaker OPEN.
C9_OpenAfterThresholdFailure ==
    [][(nfailed' = nfailed + 1 /\ failure_count' >= failure_threshold)
          => cb_state' = "OPEN"]_vars

\* a failed trial pushed the failure count past the threshold and the breaker is OPEN
C9_Witness ==
    /\ BetweenCalls
    /\ last_outcome = "fail"
    /\ failure_count > failure_threshold
    /\ cb_state = "OPEN"

\* C10: a call made while the breaker is OPEN and the time since the last failure
\* has not exceeded recovery_timeout is rejected: the operation is not invoked,
\* and state, failure count and last-failure time stay as they were.
C10_RejectsWithinCooldown ==
    [][(CallEnter(1) /\ cb_state = "OPEN" /\ WithinCooldown)
          => /\ last_outcome' = "rejected"
             /\ ncalls' = ncalls + 1
             /\ invocations' = invocations
             /\ cb_pc' = cb_pc
             /\ cb_state' = "OPEN"
             /\ failure_count' = failure_count
             /\ last_failure_time' = last_failure_time]_vars

\* a call was rejected exactly recovery_timeout seconds after the last failure
C10_Witness ==
    /\ last_outcome = "rejected"
    /\ cb_state = "OPEN"
    /\ now - last_failure_time = recovery_timeout * TicksPerSecond
    /\ invocations = nfailed

\* the time since the last failure exceeds recovery_timeout
CooldownOver == now - last_failure_time > recovery_timeout * TicksPerSecond

\* the call of caller 1 ends its wrapped operation in this step
TrialEnds == cb_pc[1] = "invoke" /\ cb_pc'[1] = "idle" /\ cb_state = "HALF_OPEN"

\* C11 (as claimed): a call made on an OPEN breaker once the time since the last
\* failure exceeds recovery_timeout, whatever its length, moves the breaker to
\* HALF_OPEN and goes on to invoke the operation.
C11_TrialAfterTimeout ==
    [][(CallEnter(1) /\ cb_state = "OPEN" /\ CooldownOver)
          => /\ cb_state' = "HALF_OPEN"
             /\ cb_pc'[1] = "invoke"
             /\ ncalls' = ncalls]_vars

\* C12: a HALF_OPEN trial that succeeds leaves the breaker CLOSED with failure
\* count 0; one that fails adds one to the failure count, records the time of
\* the failure and leaves the breaker OPEN.
C12_TrialOutcomeDecides ==
    [][TrialEnds =>
          /\ invocations' = invocations + 1
          /\ last_outcome' = "ok" =>
                /\ cb_state' = "CLOSED"
                /\ failure_count' = 0
                /\ last_failure_time' = last_failure_time
          /\ last_outcome' # "ok" =>
                /\ last_outcome' = "fail"
                /\ cb_state' = "OPEN"
                /\ failure_count' = failure_count + 1
                /\ last_failure_time' = now]_vars

\* a trial succeeded after the breaker had been tripped by two failures
C12_Witness ==
    /\ BetweenCalls
    /\ last_outcome = "ok"
    /\ nfailed = 2
    /\ failure_threshold = 2
    /\ invocations = 3
    /\ cb_state = "CLOSED"
    /\ failure_count = 0

\* C13: with one caller, a trial is started only when more than recovery_timeout
\* has passed since the last failure, and so since the failure of the trial
\* before it.
C13_OneTrialPerWindow ==
    [][(cb_state = "OPEN" /\ cb_state' = "HALF_OPEN") =>
          /\ CooldownOver
          /\ last_trial_failure # NoTime =>
                now - last_trial_failure > recovery_timeout * TicksPerSecond]_vars

\* a second trial is under way after the first one failed
C13_Witness ==
    /\ cb_state = "HALF_OPEN"
    /\ cb_pc[1] = "invoke"
    /\ last_trial_failure # NoTime
    /\ invocations = 2

----------------------------------------------------------------------------
(* Properties of the error_handler wrapper, checked under SpecWrapper *)

\* a wrapped call in which func raised has ended
WrappedFailureEnded == w_pc = "idle" /\ w_count >= 1 /\ w_call.raised

C15_CriticalReRaised ==
    /\ []((WrappedFailureEnded /\ w_call.severity = "critical"
               /\ (w_call.managed => result = FALSE))
            => /\ w_outcome = "raised"
               /\ w_call.managed =>
                     /\ Len(error_history) >= 1
                     /\ error_history[Len(error_history)].severity = "critical"
                     /\ error_history[Len(error_history)].category = w_call.category
                     /\ error_history[Len(error_history)].resolved = FALSE
                     /\ recovery_stats.failed_recoveries >= 1)
    /\ [][(w_outcome # "raised" /\ w_outcome' = "raised" /\ w_call'.managed)
            => (w_pc = "handling" /\ pc = "idle")]_vars

\* a CRITICAL failure was re-raised after a recovery action had been tried in vain
C15_Witness ==
    /\ WrappedFailureEnded
    /\ w_call.severity = "critical"
    /\ w_call.managed
    /\ Len(executed) >= 1
    /\ result = FALSE
    /\ w_outcome = "raised"

\* the wrapped call failed with a category that has no registered actions
UnregisteredFailureEnded ==
    WrappedFailureEnded /\ w_call.category \in UnregisteredCategories

\* C16 (as claimed): such a failure takes the bare logging path, and no recovery
\* is attempted for it.
C16_UnregisteredBareLogging ==
    UnregisteredFailureEnded =>
       /\ w_bare_logged
       /\ executed = <<>>

\* C16 (amended): the bare logging path is taken exactly when no manager is
\* found; with a manager the failure goes through handle_error, which records
\* it and counts a failed recovery, and no recovery action is executed.
C16_UnregisteredHandledByManager ==
    /\ [](UnregisteredFailureEnded =>
            /\ w_bare_logged <=> ~w_call.managed
            /\ w_call.managed =>
                  /\ executed = <<>>
                  /\ sleeps = 0
                  /\ Len(error_history) = recovery_stats.total_errors
                  /\ Len(error_history) >= 1
                  /\ error_history[Len(error_history)].category = w_call.category
                  /\ error_history[Len(error_history)].recovery_attempts = 0
                  /\ recovery_stats.failed_recoveries >= 1
                  /\ result = FALSE)
    /\ [][(w_count' = w_count + 1 /\ w_bare_logged')
            => UNCHANGED <<error_history, recovery_stats, executed, sleeps>>]_vars

\* a SYSTEM failure with a manager in args was recorded by handle_error
C16_Witness ==
    /\ UnregisteredFailureEnded
    /\ w_call.category = "system"
    /\ w_call.managed
    /\ ~w_bare_logged
    /\ Len(error_history) = 1

----------------------------------------------------------------------------
(* Properties of the logger, checked under SpecPerformance and SpecCleanup *)

\* C17: after n recordings under a key its window holds the last min(n, 100)
\* samples in recording order, so never more than 100; a key's window depends
\* on the recordings under that key alone.
C17_WindowKeepsLast100 ==
    \A k \in PerfKeys :
       LET n == recorded[k]
           window == WindowOf(performance_data, k)
           len == IF n < 100 THEN n ELSE 100
       IN /\ (k \in DOMAIN performance_data) <=> n > 0
          /\ Len(window) = len
          /\ \A i \in 1..Len(window) :
                /\ window[i].timestamp = n - len + i
                /\ window[i].duration = n - len + i

\* 150 samples under one key left the last 100; the other key holds its 3
C17_Witness ==
    /\ recorded[PerfKey("utils.logger", "log_action_end")] = 150
    /\ Len(performance_data[PerfKey("utils.logger", "log_action_end")]) = 100
    /\ performance_data[PerfKey("utils.logger", "log_action_end")][1].duration = 51
    /\ recorded[PerfKey("utils.logger", "__exit__")] = 3
    /\ Len(performance_data[PerfKey("utils.logger", "__exit__")]) = 3

\* C18: cleanup_old_logs removes only files modified strictly before the cutoff,
\* leaves every entry modified at or after the cutoff as it was, and does not
\* raise to its caller.
C18_CleanupNeverRaises ==
    cl_done =>
       /\ DOMAIN log_files \subseteq DOMAIN cl_before
       /\ \A name \in DOMAIN cl_before :
             /\ name \notin DOMAIN log_files =>
                   /\ cl_before[name].isfile
                   /\ cl_before[name].mtime < cl_cutoff
             /\ cl_before[name].mtime >= cl_cutoff =>
                   /\ name \in DOMAIN log_files
                   /\ log_files[name] = cl_before[name]
       /\ ~cl_raised

----------------------------------------------------------------------------
(* Properties of single executions and of repeated calls, checked under Spec *)

\* the executions of the running call whose action returned
ReturnedExecutions == {p \in 1..Len(executed) : executed[p].outcome # "raise"}

\* C19: within one handle call no registered action is executed twice, so the
\* call executes at most as many actions as the category has registered, and it
\* increments recovery_attempts at most once per execution.
C19_EachActionAtMostOnce ==
    Len(error_history) >= 1 =>
       /\ \A p, q \in 1..Len(executed) :
             executed[p].index = executed[q].index => p = q
       /\ \A p \in 1..Len(executed) :
             /\ executed[p].index \in 1..Len(ActionsFor(CurCategory))
             /\ executed[p].name = ActionsFor(CurCategory)[executed[p].index].name
       /\ Len(executed) <= Len(ActionsFor(CurCategory))
       /\ CurAttempts <= Len(executed)

\* a call executed every action registered for its category, the first of them
\* reported failure, and the call returned False
C19_Witness ==
    /\ Completed
    /\ result = FALSE
    /\ Len(executed) >= 2
    /\ Len(executed) = Len(ActionsFor(CurCategory))
    /\ executed[1].outcome = "failure"

\* C20 (as claimed): the attempts consumed by an earlier call for the same
\* category count against the budgets the running call checks.
C20_SharedAttemptCounter ==
    \A i \in 1..(Len(error_history) - 1) :
       ( /\ pc \in {"recover", "finish"}
         /\ error_history[i].category = error_history[Len(error_history)].category )
       => error_history[Len(error_history)].recovery_attempts
             >= error_history[i].recovery_attempts

\* C20 (amended): every handle call works on a record of its own whose counter
\* starts at 0 and counts the executions of that call alone, so the first action
\* of the category is never skipped, and no call changes an earlier call's record.
C20_FreshCounterPerCall ==
    /\ [](Len(error_history) >= 1 =>
            /\ error_history[Len(error_history)].recovery_attempts
                  = Cardinality(ReturnedExecutions)
            /\ executed # <<>> => executed[1].index = 1)
    /\ [][\A i \in 1..(Len(error_history) - 1) :
            error_history'[i] = error_history[i]]_vars

\* a second call for RESOURCE executes clear_cache although the first call for
\* RESOURCE used up clear_cache's single attempt
C20_Witness ==
    /\ Len(error_history) = 2
    /\ error_history[1].category = "resource"
    /\ error_history[2].category = "resource"
    /\ error_history[1].recovery_attempts = 1
    /\ ~error_history[1].resolved
    /\ Len(executed) = 1
    /\ executed[1].name = "clear_cache"
    /\ error_history[2].recovery_attempts = 1

----------------------------------------------------------------------------
(* Properties of the counters and of the budget check, checked under Spec *)

\* the records whose resolved flag is set
ResolvedRecords == {i \in 1..Len(error_history) : error_history[i].resolved}

\* the calls that have not returned yet
Running == IF pc = "idle" THEN 0 ELSE 1

\* C21: total_errors = resolved_errors + failed_recoveries after every completed
\* handle call; a call that returns true increments resolved_errors and sets its
\* record's resolved flag, any other call increments failed_recoveries and leaves
\* the flag false, so resolved_errors is the number of resolved records.
C21_CountersAgree ==
    /\ [](/\ recovery_stats.total_errors = Len(error_history)
          /\ recovery_stats.total_errors
                = recovery_stats.resolved_errors + recovery_stats.failed_recoveries + Running
          /\ recovery_stats.resolved_errors = Cardinality(ResolvedRecords)
          /\ Completed => (result <=> error_history[Len(error_history)].resolved))
    /\ [][(pc = "finish" /\ pc' = "idle") =>
            /\ error_history'[Len(error_history)].resolved = result'
            /\ recovery_stats'.resolved_errors
                  = recovery_stats.resolved_errors + (IF result' THEN 1 ELSE 0)
            /\ recovery_stats'.failed_recoveries
                  = recovery_stats.failed_recoveries + (IF result' THEN 0 ELSE 1)]_vars

\* one call returned true and one returned false
C21_Witness ==
    /\ Completed
    /\ recovery_stats = [total_errors |-> 2, resolved_errors |-> 1, failed_recoveries |-> 1]
    /\ error_history[1].resolved
    /\ ~error_history[2].resolved
    /\ ~result

\* the executions of the running call before the p-th whose action returned
ReturnedBefore(p) == {q \in 1..(p - 1) : executed[q].outcome # "raise"}

\* the second or third actions of the stock registry named by C22
ShadowedActions == {"restart_game", "restart_automation", "skip_current_action",
                    "refresh_screen"}

\* C22: an action is executed only while fewer earlier actions of the same call
\* have returned than its max_attempts, and is skipped otherwise; restart_game,
\* restart_automation, skip_current_action and refresh_screen are therefore never
\* executed after earlier actions that all returned failure.
C22_BudgetShadowsLaterActions ==
    Len(error_history) >= 1 =>
       /\ \A p \in 1..Len(executed) :
             /\ Cardinality(ReturnedBefore(p))
                   < ActionsFor(CurCategory)[executed[p].index].max_attempts
             /\ (\A q \in 1..(p - 1) : executed[q].outcome = "failure")
                   => executed[p].name \notin ShadowedActions
       /\ \A j \in 1..Len(ActionsFor(CurCategory)) :
             ( /\ pc = "recover" => j < idx
               /\ \A p \in 1..Len(executed) : executed[p].outcome = "failure" )
             => ( (\E p \in 1..Len(executed) : executed[p].index = j)
                     <=> j - 1 < ActionsFor(CurCategory)[j].max_attempts )

\* SCREEN_RECOGNITION: two actions returned failure and refresh_screen was skipped
C22_Witness ==
    /\ Completed
    /\ CurCategory = "screen_recognition"
    /\ Len(executed) = 2
    /\ executed[1].outcome = "failure"
    /\ executed[2].outcome = "failure"
    /\ idx = 4
    /\ result = FALSE

\* C23: an execution that ends in an exception leaves recovery_attempts as it
\* was, an execution that returns adds one, so the counter is the number of
\* executions that returned and a raise changes no later budget check.
C23_RaiseConsumesNoAttempt ==
    /\ [](Len(error_history) >= 1 =>
            CurAttempts = Cardinality({p \in 1..Len(executed) :
                                         executed[p].outcome \in {"success", "failure"}}))
    /\ [][Len(executed') = Len(executed) + 1 =>
            LET e == executed'[Len(executed')]
            IN IF e.outcome = "raise"
               THEN /\ error_history' = error_history
                    /\ pc' = "recover"
                    /\ idx' = idx + 1
               ELSE error_history'[Len(error_history)].recovery_attempts
                       = error_history[Len(error_history)].recovery_attempts + 1]_vars

\* RESOURCE: clear_cache raised, so restart_automation (max_attempts 1) was still
\* executed, and its return was the first attempt counted
C23_Witness ==
    /\ Completed
    /\ CurCategory = "resource"
    /\ Len(executed) = 2
    /\ executed[1].outcome = "raise"
    /\ executed[2].name = "restart_automation"
    /\ executed[2].outcome = "failure"
    /\ CurAttempts = 1

----------------------------------------------------------------------------
(* Properties of the placeholder recovery actions, checked under SpecStock *)

\* C24: with the placeholder recovery actions, a handle call for any of the five
\* registered categories returns true after executing only the first registered
\* action, and leaves the record with recovery_attempts = 1 and resolved = true.
C24_StockFirstActionResolves ==
    /\ DOMAIN recovery_actions
          = {"screen_recognition", "game_state", "network", "resource", "ai_decision"}
    /\ (callables = "stock" /\ Completed /\ CurCategory \in DOMAIN recovery_actions) =>
          /\ result = TRUE
          /\ executed = <<[index |-> 1, name |-> ActionsFor(CurCategory)[1].name,
                           outcome |-> "success"]>>
          /\ CurAttempts = 1
          /\ error_history[Cur].resolved

\* two handle calls with the placeholders, the second for NETWORK after
\* wait_for_network alone
C24_Witness ==
    /\ callables = "stock"
    /\ Completed
    /\ Len(error_history) = 2
    /\ CurCategory = "network"
    /\ executed[1].name = "wait_for_network"
    /\ error_history[2].resolved
    /\ recovery_stats.resolved_errors >= 1

----------------------------------------------------------------------------
(* Further properties of the CircuitBreaker with one caller, under SpecBreaker *)

\* C25: a successful call in CLOSED leaves failure_count as it was, so the count
\* is the number of failed calls, whatever successes lie between them, and the
\* failure_threshold-th failure moves the breaker to OPEN.
C25_FailuresAccumulate ==
    /\ [](nfailed < failure_threshold =>
             (failure_count = nfailed /\ cb_state = "CLOSED"))
    /\ [][(cb_state = "CLOSED" /\ invocations' = invocations + 1 /\ last_outcome' = "ok") =>
             (failure_count' = failure_count /\ cb_state' = "CLOSED")]_vars
    /\ [][(nfailed' = nfailed + 1 /\ nfailed' = failure_threshold) =>
             (cb_state' = "OPEN" /\ failure_count' = failure_threshold)]_vars

\* a success that followed two failures left the count at 2, one short of the
\* threshold: the next failure is the third and opens the breaker
C25_Witness ==
    /\ BetweenCalls
    /\ failure_threshold = 3
    /\ cb_state = "CLOSED"
    /\ last_outcome = "ok"
    /\ failure_count = 2
    /\ nfailed = 2
    /\ ncalls = 3

\* C26: between calls of a single caller the breaker is CLOSED with
\* failure_count < failure_threshold, or OPEN with failure_count >=
\* failure_threshold and a last failure time; it is HALF_OPEN only inside a call.
C26_StateMatchesCount ==
    /\ failure_threshold >= 1
    /\ BetweenCalls =>
          \/ cb_state = "CLOSED" /\ failure_count < failure_threshold
          \/ /\ cb_state = "OPEN"
             /\ failure_count >= failure_threshold
             /\ last_failure_time # NoTime
    /\ cb_state = "HALF_OPEN" => cb_pc[1] = "invoke"
    /\ cb_state \in {"CLOSED", "OPEN", "HALF_OPEN"}

\* a breaker back in CLOSED with count 0 after a trial that succeeded
C26_Witness ==
    /\ BetweenCalls
    /\ cb_state = "CLOSED"
    /\ failure_count = 0
    /\ nfailed >= failure_threshold
    /\ last_outcome = "ok"

----------------------------------------------------------------------------
(* Properties of the CircuitBreaker shared by two callers, under SpecConcurrent *)

\* a call is rejected in this step
Rejects == ncalls' = ncalls + 1 /\ last_outcome' = "rejected" /\ invocations' = invocations

\* C27: call takes no lock: a call that starts while another caller's trial is
\* under way is never rejected or held back, it finds HALF_OPEN and goes on to
\* the operation; so both callers can be past the check at once and the
\* operation is invoked twice after one expiry of the recovery timeout.
C27_NoMutualExclusion ==
    /\ [][cb_state = "HALF_OPEN" => ~Rejects]_vars
    /\ [][\A c \in Callers :
            (cb_state = "HALF_OPEN" /\ cb_pc[c] = "idle" /\ cb_pc'[c] = "invoke") =>
               (cb_state' = "HALF_OPEN" /\ \E k \in Callers : cb_pc[k] = "invoke")]_vars
    /\ [](window_invocations <= Cardinality(Callers))

\* both callers passed the check after one expiry of the timeout, the trial of
\* one failed and the other invoked the operation all the same
C27_Witness ==
    /\ BetweenCalls
    /\ window_invocations = 2
    /\ cb_state = "OPEN"
    /\ now = last_failure_time
    /\ last_trial_failure = last_failure_time

----------------------------------------------------------------------------
(* The wrapper's re-raise test and the recovery outcome, under SpecWrapper *)

----------------------------------------------------------------------------
(* Properties of action-end records and timers, checked under SpecActions *)

\* C29 (as claimed): the durations of two different operations are stored in
\* different performance windows, and an operation's window holds its own
\* samples only.
C29_WindowPerOperation ==
    \A o1, o2 \in Operations :
       (o1 # o2 /\ ended[o1] > 0 /\ ended[o2] > 0) =>
          /\ window_of[o1] # window_of[o2]
          /\ Len(WindowOf(performance_data, window_of[o1])) = ended[o1]

\* the window that log_action_end's samples go to
ActionEndKey == PerfKey("utils.logger", "log_action_end")

\* the samples of a window without a numeric duration
NoneSamples(window) == {i \in 1..Len(window) : window[i].duration = NoDuration}

\* C30: every log_action_end call appends exactly one sample to a performance
\* window; when the call was given neither a duration nor a start_time, the
\* duration of that sample is None.
C30_ActionEndAlwaysRecords ==
    [][(ended' # ended /\ last_log'.entry = "log_action_end") =>
          LET before == WindowOf(performance_data, ActionEndKey)
              after == WindowOf(performance_data', ActionEndKey)
          IN /\ recorded'[ActionEndKey] = recorded[ActionEndKey] + 1
             /\ after = TrimWindow(Append(before, after[Len(after)]))
             /\ Len(after) >= 1
             /\ (after[Len(after)].duration = NoDuration) <=> (last_log'.given = "neither")
             /\ \A k \in DOMAIN performance_data \ {ActionEndKey} :
                   /\ k \in DOMAIN performance_data'
                   /\ performance_data'[k] = performance_data[k]]_vars

\* a window with a None between two numeric durations
C30_Witness ==
    /\ ActionEndKey \in DOMAIN performance_data
    /\ Len(performance_data[ActionEndKey]) >= 3
    /\ performance_data[ActionEndKey][1].duration # NoDuration
    /\ performance_data[ActionEndKey][2].duration = NoDuration
    /\ performance_data[ActionEndKey][3].duration # NoDuration
    /\ last_log.entry = "log_action_end"
    /\ last_log.given = "start_time"

====
